---- MODULE Spec2Model ----
(***************************************************************************)
(* Points, polylines and Ramer-Douglas-Peucker approximation, after        *)
(* src/geometry.py.                                                        *)
(*                                                                         *)
(* Numbers.  A Python float is modelled as an exact rational <<n, d>> in   *)
(* lowest terms with d > 0.  Addition, subtraction and multiplication are  *)
(* exact.  Division is exact except for underflow: a quotient whose        *)
(* magnitude is at most half the smallest positive float becomes 0, as     *)
(* IEEE-754 round-to-nearest-even does (5e-324 / 4 = 0.0 in Python).       *)
(* math.sqrt is monotone on non-negative numbers, so the value it returns  *)
(* is carried as its radicand: comparisons of two square roots compare the *)
(* radicands, and a comparison with the tolerance squares the tolerance.   *)
(*                                                                         *)
(* Objects.  Point objects live in coords (id -> Point); a PolyLine is an  *)
(* object id o with points[o] (a list of Point ids) and listeners[o].      *)
(* Lists are TLA+ sequences; list indices are Python's (0-based, negative  *)
(* from the end) and go through GetItem.                                   *)
(*                                                                         *)
(* A local variable of the code that is read more than once is a parameter *)
(* of a continuation operator (normal_slope of with_normal_slope, ...).    *)
(***************************************************************************)
EXTENDS Integers, Sequences, FiniteSets, TLC

VARIABLES coords, points, listeners, received, calls, geom

vars == <<coords, points, listeners, received, calls, geom>>

---------------------------------------------------------------------------
(* Bounds of the model *)

MaxLen == 4          \* longest polyline the caller builds
MaxX == 1            \* x coordinates are 0..MaxX, y coordinates are 0 and 1
MaxTol == 2          \* tolerances are k/2 for k in 0..MaxTol
RecursionLimit == 12 \* stand-in for the interpreter's recursion limit
MaxObsLen == 3       \* longest polyline in the observer scenario
MaxListeners == 1    \* listeners the caller registers
MaxReceived == 1     \* events the caller itself sends through notify_all
MaxGeom == 2         \* integer coordinates given to the geometric primitives
MinPosDen == 8       \* the smallest positive float is 1/MinPosDen
MaxWideLen == 5      \* longest polyline in the wide-grid scenario
MaxWideX == 3        \* x coordinates of the wide grid are 0..MaxWideX
MaxWideTol == 1      \* tolerances of the wide-grid scenario are k/2, k in 0..MaxWideTol

---------------------------------------------------------------------------
(* Rational arithmetic standing for float arithmetic *)

Abs(n) == IF n < 0 THEN 0 - n ELSE n

RECURSIVE GCD(_, _)
GCD(a, b) == IF b = 0 THEN a ELSE GCD(b, a % b)

Reduce(n, d, g) == <<n \div g, d \div g>>

\* n/d in lowest terms with a positive denominator
Rat(n, d) ==
    IF d < 0 THEN Reduce(0 - n, 0 - d, GCD(Abs(n), Abs(d)))
    ELSE Reduce(n, d, GCD(Abs(n), Abs(d)))

Zero == <<0, 1>>
One == <<1, 1>>
MinPos == Rat(1, MinPosDen)

\* a sum or difference is left unreduced until it is stored (Norm)
FAdd(a, b) ==
    IF a[2] = b[2] THEN <<a[1] + b[1], a[2]>>
    ELSE <<a[1] * b[2] + b[1] * a[2], a[2] * b[2]>>
FSub(a, b) == FAdd(a, <<0 - b[1], b[2]>>)
Norm(a) == Rat(a[1], a[2])
FMul(a, b) == Rat(a[1] * b[1], a[2] * b[2])
FLess(a, b) == a[1] * b[2] < b[1] * a[2]
FLeq(a, b) == a[1] * b[2] <= b[1] * a[2]
FAbs(a) == <<Abs(a[1]), a[2]>>
IsZero(a) == a[1] = 0

\* the exact quotient q, flushed to 0 when it underflows
Rounded(q) == IF FLeq(<<2 * Abs(q[1]), q[2]>>, MinPos) THEN Zero ELSE q

\* a / b for b # 0
FDiv(a, b) == Rounded(Rat(a[1] * b[2], a[2] * b[1]))

---------------------------------------------------------------------------
(* Python list indexing *)

ValidIndex(s, i) == (0 - Len(s)) <= i /\ i < Len(s)
GetItem(s, i) == IF i >= 0 THEN s[i + 1] ELSE s[Len(s) + i + 1]

---------------------------------------------------------------------------
(* class Point *)

Point(p1, p2) == [x |-> p1, y |-> p2]

PointEq(a, b) == (a.x = b.x) /\ (a.y = b.y)

---------------------------------------------------------------------------
(* normal_intercept and deviation.  A result is [exc, value]: exc is ""    *)
(* when the function returns value, else the name of the exception.        *)

Return(v) == [exc |-> "", value |-> v]
Raise(e) == [exc |-> e, value |-> Zero]

\* y_intersect = seg_slope * x_intersect + seg_b; return Point(...)
with_x_intersect(seg_slope, seg_b, x_intersect) ==
    Return(Point(x_intersect, Norm(FAdd(FMul(seg_slope, x_intersect), seg_b))))

\* x_intersect = (seg_b - normal_b) / (normal_slope - seg_slope)
with_intercepts(seg_slope, normal_slope, seg_b, normal_b) ==
    IF IsZero(FSub(normal_slope, seg_slope)) THEN Raise("ZeroDivisionError")
    ELSE with_x_intersect(seg_slope, seg_b,
            FDiv(FSub(seg_b, normal_b), FSub(normal_slope, seg_slope)))

\* seg_b = p1.y - seg_slope * p1.x; normal_b = p.y - normal_slope * p.x
with_normal_slope(p1, p, seg_slope, normal_slope) ==
    with_intercepts(seg_slope, normal_slope,
                    Norm(FSub(p1.y, FMul(seg_slope, p1.x))),
                    Norm(FSub(p.y, FMul(normal_slope, p.x))))

\* normal_slope = 0 - (1.0 / seg_slope)
with_seg_slope(p1, p, seg_slope) ==
    IF IsZero(seg_slope) THEN Raise("ZeroDivisionError")
    ELSE with_normal_slope(p1, p, seg_slope, Norm(FSub(Zero, FDiv(One, seg_slope))))

\* a plausible slip: the horizontal case is gone
normal_intercept_no_horizontal(p1, p2, p) ==
    IF p2.x = p1.x THEN Return(Point(p1.x, p.y))
    ELSE IF IsZero(FSub(p2.x, p1.x)) THEN Raise("ZeroDivisionError")
    ELSE with_seg_slope(p1, p, FDiv(FSub(p2.y, p1.y), FSub(p2.x, p1.x)))

normal_intercept(p1, p2, p) ==
    IF p2.x = p1.x THEN Return(Point(p1.x, p.y))
    ELSE IF p2.y = p1.y THEN Return(Point(p.x, p1.y))
    ELSE IF IsZero(FSub(p2.x, p1.x)) THEN Raise("ZeroDivisionError")
    ELSE with_seg_slope(p1, p, FDiv(FSub(p2.y, p1.y), FSub(p2.x, p1.x)))

\* dx = intercept.x - p.x; dy = intercept.y - p.y
SumSq(dx, dy) == Norm(FAdd(FMul(dx, dx), FMul(dy, dy)))

\* math.sqrt(dx*dx + dy*dy), carried as the radicand
distance_to(intercept, p) ==
    IF intercept.exc # "" THEN Raise(intercept.exc)
    ELSE Return(SumSq(Norm(FSub(intercept.value.x, p.x)),
                      Norm(FSub(intercept.value.y, p.y))))

deviation(p1, p2, p) == distance_to(normal_intercept(p1, p2, p), p)

---------------------------------------------------------------------------
(* class PolyLine.  The methods work on the heap h = [points, listeners,   *)
(* received, exc]: exc is "" while no exception is propagating.            *)

\* a plausible slip: _listeners shared with the first PolyLine (a class attribute)
PolyLine_shared_listeners(h) ==
    [h EXCEPT !.points = Append(@, <<>>), !.listeners = Append(@, h.listeners[1])]

\* PolyLine(): a new object with no listeners and no points
PolyLine(h) ==
    [h EXCEPT !.points = Append(@, <<>>), !.listeners = Append(@, <<>>)]

\* PolyLine.append
append(h, self, other) ==
    [h EXCEPT !.points[self] = Append(@, other)]

Throw(h, e) == [h EXCEPT !.exc = e]

\* PolyLine.add_listener
add_listener(h, self, listener) ==
    [h EXCEPT !.listeners[self] = Append(@, listener)]

\* PolyLine.notify_all: every listener, in registration order, receives the event
notify_all(h, self, event_name, options) ==
    [h EXCEPT !.received = @ \o
        [k \in 1..Len(h.listeners[self]) |->
            [listener |-> h.listeners[self][k], event_name |-> event_name,
             options |-> options]]]

ScanResult(exc, maxdev, maxindex) ==
    [exc |-> exc, maxdev |-> maxdev, maxindex |-> maxindex]

\* the for loop of _dp_simplify, from index i on
RECURSIVE Scan(_, _, _, _, _, _)

\* the loop body for index i, dev = deviation(points[from], points[to], points[i])
scan_step(pts, from_index, to_index, i, maxdev, maxindex, dev) ==
    IF dev.exc # "" THEN ScanResult(dev.exc, maxdev, maxindex)
    ELSE IF FLess(maxdev, dev.value)
         THEN Scan(pts, from_index, to_index, i + 1, dev.value, i)
         ELSE Scan(pts, from_index, to_index, i + 1, maxdev, maxindex)

Scan(pts, from_index, to_index, i, maxdev, maxindex) ==
    IF i >= to_index THEN ScanResult("", maxdev, maxindex)
    ELSE scan_step(pts, from_index, to_index, i, maxdev, maxindex,
                   deviation(coords[GetItem(pts, from_index)],
                             coords[GetItem(pts, to_index)],
                             coords[GetItem(pts, i)]))

\* a plausible slip: range(from_index + 2, to_index)
interior_scan_skips_first(pts, from_index, to_index) ==
    Scan(pts, from_index, to_index, from_index + 2, Zero, 0)

\* maxdev = 0; maxindex = 0; for i in range(from_index + 1, to_index): ...
interior_scan(pts, from_index, to_index) ==
    Scan(pts, from_index, to_index, from_index + 1, Zero, 0)

\* a plausible slip: the comparison the wrong way round
Flat_inverted(maxdev, tolerance) ==
    IF FLess(tolerance, Zero) THEN TRUE
    ELSE FLess(FMul(tolerance, tolerance), maxdev)

\* maxdev < tolerance, maxdev carried as its radicand
Flat(maxdev, tolerance) ==
    IF FLess(tolerance, Zero) THEN FALSE
    ELSE FLess(maxdev, FMul(tolerance, tolerance))

\* approx.append(self._points[from_index])
accept_from(h, self, approx, from_index) ==
    IF ValidIndex(h.points[self], from_index)
    THEN append(h, approx, GetItem(h.points[self], from_index))
    ELSE Throw(h, "IndexError")

\* PolyLine._dp_simplify; depth is the number of its frames on the stack
RECURSIVE dp_simplify(_, _, _, _, _, _, _)

\* the second recursive call, after the first gave left
dp_right(left, self, approx, tolerance, maxindex, to_index, depth) ==
    IF left.exc # "" THEN left
    ELSE dp_simplify(left, self, approx, tolerance, maxindex, to_index, depth + 1)

\* the code after the for loop, s = [exc, maxdev, maxindex]
dp_after_scan(h, self, approx, tolerance, from_index, to_index, depth, s) ==
    IF s.exc # "" THEN Throw(h, s.exc)
    ELSE IF Flat(s.maxdev, tolerance) THEN accept_from(h, self, approx, from_index)
    ELSE dp_right(dp_simplify(h, self, approx, tolerance,
                              from_index, s.maxindex, depth + 1),
                  self, approx, tolerance, s.maxindex, to_index, depth)

dp_simplify(h, self, approx, tolerance, from_index, to_index, depth) ==
    IF depth > RecursionLimit THEN Throw(h, "RecursionError")
    ELSE IF to_index - from_index < 2 THEN accept_from(h, self, approx, from_index)
    ELSE dp_after_scan(h, self, approx, tolerance, from_index, to_index, depth,
                       interior_scan(h.points[self], from_index, to_index))

Outcome(h, ret) == [h |-> h, ret |-> ret]

\* a plausible slip: the last point is never appended
approximate_tail_no_last(h1, self, approx) ==
    IF h1.exc # "" THEN Outcome(h1, 0) ELSE Outcome(h1, approx)

\* a plausible slip: an empty polyline gives back the empty PolyLine
approximate_tail_allows_empty(h1, self, approx) ==
    IF h1.points[self] = <<>> THEN Outcome(Throw(h1, ""), approx)
    ELSE IF h1.exc # "" THEN Outcome(h1, 0)
    ELSE Outcome(append(h1, approx, GetItem(h1.points[self], 0 - 1)), approx)

\* approx.append(self._points[-1]); return approx
approximate_tail(h1, self, approx) ==
    IF h1.exc # "" THEN Outcome(h1, 0)
    ELSE IF ~ValidIndex(h1.points[self], 0 - 1)
    THEN Outcome(Throw(h1, "IndexError"), 0)
    ELSE Outcome(append(h1, approx, GetItem(h1.points[self], 0 - 1)), approx)

\* PolyLine.approximate: [h, ret]; ret is the new PolyLine, 0 when it raised
approximate(h, self, tolerance) ==
    approximate_tail(
        dp_simplify(PolyLine(h), self, Len(h.points) + 1, tolerance,
                    0, Len(h.points[self]) - 1, 1),
        self, Len(h.points) + 1)

---------------------------------------------------------------------------
(* The caller.  Object 1 is the polyline L the caller builds; calls is the *)
(* caller's record of its approximate calls and what each gave back.       *)

Xs == 0..MaxX
Ys == 0..1
Tolerances == {Rat(k, 2) : k \in 0..MaxTol}
WideXs == 0..MaxWideX
WideTolerances == {Rat(k, 2) : k \in 0..MaxWideTol}
Listeners == {"view"}
EventNames == {"trial_approx", "final_approx_seg"}
L == 1

Heap == [points |-> points, listeners |-> listeners, received |-> received, exc |-> ""]

NoGeom == [p1 |-> Point(Zero, Zero), p2 |-> Point(Zero, Zero), p |-> Point(Zero, Zero),
           called |-> FALSE, intercept |-> Return(Point(Zero, Zero)),
           dev |-> Return(Zero)]

Init ==
    /\ coords = <<>>
    /\ points = <<(<<>>)>>
    /\ listeners = <<(<<>>)>>
    /\ received = <<>>
    /\ calls = <<>>
    /\ geom = NoGeom

\* L.append(Point(x, y))
AppendPoint(maxlen, xs) ==
    /\ calls = <<>>
    /\ Len(points[L]) < maxlen
    /\ \E x \in xs, y \in Ys :
        /\ coords' = Append(coords, Point(<<x, 1>>, <<y, 1>>))
        /\ points' = append(Heap, L, Len(coords) + 1).points
    /\ UNCHANGED <<listeners, received, calls, geom>>

\* the objects that outlive the call: an exception drops the PolyLine it built
Kept(r) == IF r.ret = 0 THEN Len(points) ELSE Len(r.h.points)

\* self.approximate(tolerance)
Call(self, tolerance) ==
    \E r \in {approximate(Heap, self, tolerance)} :
        /\ points' = SubSeq(r.h.points, 1, Kept(r))
        /\ listeners' = SubSeq(r.h.listeners, 1, Kept(r))
        /\ received' = r.h.received
        /\ calls' = Append(calls, [self |-> self, tolerance |-> tolerance,
                                   exc |-> r.h.exc, ret |-> r.ret])
        /\ UNCHANGED <<coords, geom>>

\* r1 = L.approximate(t)
Approximate(tolerances) ==
    /\ calls = <<>>
    /\ \E t \in tolerances : Call(L, t)

\* r2 = r1.approximate(t), the same t
Reapproximate ==
    /\ Len(calls) = 1
    /\ calls[1].ret # 0
    /\ Call(calls[1].ret, calls[1].tolerance)

\* r2 = L.approximate(t2) for a looser t2
ApproximateLooser(tolerances) ==
    /\ Len(calls) = 1
    /\ \E t2 \in tolerances :
        /\ FLess(calls[1].tolerance, t2)
        /\ Call(L, t2)

Next ==
    \/ AppendPoint(MaxLen, Xs)
    \/ Approximate(Tolerances)
    \/ Reapproximate
    \/ ApproximateLooser(Tolerances)

Spec == Init /\ [][Next]_vars

---------------------------------------------------------------------------
(* The same caller over a wider grid, where a range that starts after L[0] *)
(* can have all its interior points on the line through its ends.          *)

NextWide ==
    \/ AppendPoint(MaxWideLen, WideXs)
    \/ Approximate(WideTolerances)
    \/ Reapproximate
    \/ ApproximateLooser(WideTolerances)

SpecWide == Init /\ [][NextWide]_vars

---------------------------------------------------------------------------
(* The observer scenario: the caller registers listeners on L, may send    *)
(* an event of its own, and approximates once.                             *)

\* L.add_listener(listener)
AddListener ==
    /\ calls = <<>>
    /\ Len(listeners[L]) < MaxListeners
    /\ \E listener \in Listeners :
        listeners' = add_listener(Heap, L, listener).listeners
    /\ UNCHANGED <<coords, points, received, calls, geom>>

\* L.notify_all(event_name), options left at its default {}
NotifyAll ==
    /\ calls = <<>>
    /\ listeners[L] # <<>>
    /\ Len(received) + Len(listeners[L]) <= MaxReceived
    /\ \E event_name \in EventNames :
        received' = notify_all(Heap, L, event_name, <<>>).received
    /\ UNCHANGED <<coords, points, listeners, calls, geom>>

NextObs ==
    \/ AppendPoint(MaxObsLen, Xs)
    \/ AddListener
    \/ NotifyAll
    \/ Approximate(Tolerances)

SpecObs == Init /\ [][NextObs]_vars

---------------------------------------------------------------------------
(* The geometric primitives on their own: the caller picks p1, p2 and p    *)
(* and calls normal_intercept and deviation on them.                       *)

\* the segment's ends may have the smallest positive float as a coordinate
IntCoords == {<<k, 1>> : k \in 0..MaxGeom}
GeomCoords == IntCoords \cup {MinPos}
GeomPoints == {Point(x, y) : x \in GeomCoords, y \in GeomCoords}
IntPoints == {Point(x, y) : x \in IntCoords, y \in IntCoords}

InitGeom ==
    /\ coords = <<>>
    /\ points = <<(<<>>)>>
    /\ listeners = <<(<<>>)>>
    /\ received = <<>>
    /\ calls = <<>>
    /\ \E p1 \in GeomPoints, p2 \in GeomPoints, p \in IntPoints :
        geom = [NoGeom EXCEPT !.p1 = p1, !.p2 = p2, !.p = p]

Measure ==
    /\ ~geom.called
    /\ geom' = [geom EXCEPT !.called = TRUE,
                            !.intercept = normal_intercept(geom.p1, geom.p2, geom.p),
                            !.dev = deviation(geom.p1, geom.p2, geom.p)]
    /\ UNCHANGED <<coords, points, listeners, received, calls>>

NextGeom == Measure

SpecGeom == InitGeom /\ [][NextGeom]_vars

---------------------------------------------------------------------------
(* Properties of approximate *)

\* the calls L.approximate(t) that returned a PolyLine
Returned == {k \in 1..Len(calls) : calls[k].self = L /\ calls[k].ret # 0}

Result(k) == points[calls[k].ret]

WithinTolerance(dev, tolerance) ==
    dev.exc = "" /\ FLeq(dev.value, FMul(tolerance, tolerance))

\* C1: every point L[i] between two consecutive vertices L[a], L[b] of the
\* result (a <= i <= b) has deviation(L[a], L[b], L[i]) <= t
C1_DeviationBound ==
    \A k \in Returned :
        \A j \in 1..(Len(Result(k)) - 1) :
            \A i \in Result(k)[j]..Result(k)[j + 1] :
                WithinTolerance(deviation(coords[Result(k)[j]],
                                          coords[Result(k)[j + 1]], coords[i]),
                                calls[k].tolerance)

\* a tolerance t > 0 dropped a point of L that is off the line through the
\* vertices around it
C1_Witness ==
    \E k \in Returned :
        /\ FLess(Zero, calls[k].tolerance)
        /\ \E j \in 1..(Len(Result(k)) - 1) :
            \E i \in (Result(k)[j] + 1)..(Result(k)[j + 1] - 1) :
                FLess(Zero, deviation(coords[Result(k)[j]],
                                      coords[Result(k)[j + 1]], coords[i]).value)

\* C2: the vertices of the result are L[i1], ..., L[ik] with i1 < ... < ik,
\* for every non-empty L, length 1 included
C2_StrictlyIncreasing ==
    \A k \in Returned :
        \A j \in 1..(Len(Result(k)) - 1) : Result(k)[j] < Result(k)[j + 1]

\* C3: the result starts with L[0] and ends with the last point of L
C3_Endpoints ==
    \A k \in Returned :
        /\ Len(Result(k)) >= 1
        /\ GetItem(Result(k), 0) = GetItem(points[L], 0)
        /\ GetItem(Result(k), 0 - 1) = GetItem(points[L], 0 - 1)

\* a result that dropped points of a polyline of three or more points
C3_Witness ==
    \E k \in Returned :
        Len(points[L]) >= 3 /\ Len(Result(k)) < Len(points[L])

\* C4: approximate on a non-empty polyline, no listener registered, returns
\* a result
C4_Terminates ==
    \A k \in 1..Len(calls) :
        (calls[k].self = L /\ Len(points[L]) >= 1 /\ listeners[L] = <<>>)
            => calls[k].ret # 0

SamePoints(a, b) ==
    /\ Len(a) = Len(b)
    /\ \A j \in 1..Len(a) : PointEq(coords[a[j]], coords[b[j]])

\* the call r1.approximate(t) was made on the result r1 of L.approximate(t)
Resimplified ==
    Len(calls) = 2 /\ calls[1].ret # 0 /\ calls[2].self = calls[1].ret

\* C6: L.approximate(t).approximate(t) has the point sequence of L.approximate(t)
C6_Idempotent ==
    Resimplified =>
        /\ calls[2].ret # 0
        /\ SamePoints(points[calls[2].ret], points[calls[1].ret])

\* L.approximate(t1) and L.approximate(t2), t1 < t2, both returned
Compared ==
    Len(calls) = 2 /\ calls[2].self = L /\ calls[1].ret # 0 /\ calls[2].ret # 0

\* C7: for t1 < t2, L.approximate(t1) has at least as many vertices as
\* L.approximate(t2)
C7_Monotone ==
    Compared => Len(points[calls[1].ret]) >= Len(points[calls[2].ret])

\* the looser tolerance gave strictly fewer vertices
C7_Witness ==
    Compared /\ Len(points[calls[1].ret]) > Len(points[calls[2].ret])

\* C9: approximate on an empty polyline raises: nothing is returned, no
\* PolyLine is left behind, and the empty polyline stays empty
C9_EmptyRaises ==
    \A k \in 1..Len(calls) :
        (calls[k].self = L /\ points[L] = <<>>) =>
            /\ calls[k].exc # ""
            /\ calls[k].ret = 0
            /\ Len(points) = 1

C9_Witness ==
    \E k \in 1..Len(calls) :
        calls[k].self = L /\ points[L] = <<>> /\ calls[k].exc = "IndexError"

---------------------------------------------------------------------------
(* Properties of the observer scenario *)

Segment(k) ==
    [p1 |-> coords[GetItem(points[L], 0)], p2 |-> coords[GetItem(points[L], 0 - 1)]]

\* C5: a range [from, to] with to - from >= 2 that the recursion evaluates
\* delivers one event, trial_approx or final_approx_seg, with its endpoints, to
\* a registered observer; the first range is the whole of L
C5_EventsDelivered ==
    \A k \in Returned :
        (Len(points[L]) >= 3 /\ listeners[L] # <<>>) =>
            \E e \in 1..Len(received) :
                /\ received[e].event_name \in EventNames
                /\ DOMAIN received[e].options = {"p1", "p2"}
                /\ received[e].options = Segment(k)

\* the call made in this step, when one was made
Made == calls'[Len(calls')]

\* C8: approximate leaves self's vertices and listeners as they were; what it
\* returns is a new object, the only one written, with no listeners
C8_Step ==
    (calls' # calls) =>
        /\ points'[Made.self] = points[Made.self]
        /\ listeners'[Made.self] = listeners[Made.self]
        /\ \A o \in 1..Len(points) :
            points'[o] = points[o] /\ listeners'[o] = listeners[o]
        /\ Made.ret # 0 =>
            /\ Made.ret = Len(points) + 1
            /\ Len(points') = Len(points) + 1
            /\ listeners'[Made.ret] = <<>>

C8_SelfUnchanged == [][C8_Step]_vars

\* a polyline with a listener was approximated and the call returned
C8_Witness ==
    \E k \in Returned :
        listeners[L] # <<>> /\ Len(points[L]) >= 3 /\ listeners[calls[k].ret] = <<>>

---------------------------------------------------------------------------
(* Properties of the geometric primitives *)

\* C10: normal_intercept never divides by zero
C10_NoDivisionByZero ==
    geom.called => geom.intercept.exc = ""

Square(a) == FMul(a, a)

\* the special cases of C10, in their order: a vertical segment (p1 = p2
\* included) gives (p1.x, p.y) and |p.x - p1.x|, a horizontal one (p.x, p1.y)
\* and |p.y - p1.y|
C10_SpecialCases ==
    geom.called =>
        /\ geom.p1.x = geom.p2.x =>
            /\ geom.intercept = Return(Point(geom.p1.x, geom.p.y))
            /\ geom.dev = Return(Square(Norm(FSub(geom.p.x, geom.p1.x))))
        /\ (geom.p1.x # geom.p2.x /\ geom.p1.y = geom.p2.y) =>
            /\ geom.intercept = Return(Point(geom.p.x, geom.p1.y))
            /\ geom.dev = Return(Square(Norm(FSub(geom.p.y, geom.p1.y))))

====
